---- MODULE Spec2Model ----
(***************************************************************************)
(* Build-cache resolution, Dockerfile rewriting and retry wrapper of       *)
(* oss-fuzz-gen (experiment/oss_fuzz_checkout.py, utils.py).               *)
(*                                                                         *)
(* Four state machines share the module, one specification each:           *)
(*   SpecRetry  - utils.retryable: runs of a wrapped operation             *)
(*   SpecRef    - _get_project_cache_image_name on two keys                *)
(*   SpecCache  - _prepare_image_cache / is_image_cached against docker    *)
(*   Spec       - a staged project: create_ossfuzz_project,                *)
(*                rewrite_project_to_cached_project, prepare_build         *)
(* Names are sequences of one-character strings; a Dockerfile is a         *)
(* sequence of lines, a line a sequence of lexemes.                        *)
(***************************************************************************)
EXTENDS Integers, Sequences, FiniteSets, TLC

VARIABLES
    pipe,               \* oss_fuzz_checkout.py:450  the position of one call of prepare_project_image
    tagged,             \* oss_fuzz_checkout.py:425  the last call of rectify_docker_tag
    exception_config,   \* utils.py:69  failure kind -> attempt budget
    run,                \* utils.py:76  one record per run of wrapper()
    named,              \* the keys handed to _get_project_cache_image_name
    registry,           \* image references the remote registry holds
    images,             \* image references of the local docker image store
    containers,         \* names of the local docker containers
    has_script,         \* fuzzer_build_script/<project> is a file
    prep,               \* the call of _prepare_image_cache: position, result
    docker_log,         \* the docker/helper commands that call has run
    query,              \* the last is_image_cached call of an outside caller
    enable_caching,     \* oss_fuzz_checkout.py:35  ENABLE_CACHING
    project_dockerfile, \* projects/<project>/Dockerfile of the OSS-Fuzz checkout
    staged,             \* projects/<generated_project> exists
    files,              \* the Dockerfiles of projects/<generated_project>
    last                \* the last call on the staged project and how it ended

retryVars == <<exception_config, run>>

refVars == <<named>>

cacheVars == <<registry, images, containers, has_script, prep, docker_log, query>>

stageVars == <<enable_caching, project_dockerfile, staged, files, last>>

tagVars == <<tagged>>

pipeVars == <<pipe>>

vars == <<exception_config, run, named, registry, images, containers,
          has_script, prep, docker_log, query,
          enable_caching, project_dockerfile, staged, files, last, tagged, pipe>>

(***************************************************************************)
(* utils.retryable                                                         *)
(***************************************************************************)

\* Largest attempt budget a configuration of the model gives a kind.
MaxBudget == 3

\* The runs of the wrapped operation that may be in flight together.
Runs == {"run1", "run2"}

\* Failure kinds the wrapped operation raises: exception classes, KindASub a
\* subclass of KindA.
Kinds == {"KindA", "KindASub", "KindB"}

\* The classes a failure of kind k is an instance of (isinstance).
Supertypes(k) == IF k = "KindASub" THEN {"KindASub", "KindA"} ELSE {k}

Budgets == 0..MaxBudget

\* A dict from some kinds to budgets.
BudgetMaps == UNION {[D -> Budgets] : D \in SUBSET Kinds}

\* utils.py:69-71  {exc: default_attempts for exc in exceptions} | other
ExceptionConfig(exceptions, default_attempts, other_exceptions) ==
    [k \in exceptions \cup DOMAIN other_exceptions |->
        IF k \in DOMAIN other_exceptions THEN other_exceptions[k]
        ELSE default_attempts]

\* Mutant of TypeIs: isinstance() instead of an exact type test.
TypeIsInstance(k, exc_type) == exc_type \in Supertypes(k)

\* utils.py:87  type(e) is exc_type
TypeIs(k, exc_type) == k = exc_type

\* Mutant of DefaultBudget: an unlisted kind is retried once.
DefaultBudgetTwo == 1 + 1

\* utils.py:89  the default of next(...): the budget of an unlisted kind
DefaultBudget == 1

\* utils.py:83-90  num_attempts: the budget of the first entry that matches
NumAttempts(config, k) ==
    IF \E t \in DOMAIN config : TypeIs(k, t)
    THEN config[CHOOSE t \in DOMAIN config : TypeIs(k, t)]
    ELSE DefaultBudget

\* Mutant of Exhausted: off by one, one attempt too many.
ExhaustedStrict(attempt, num_attempts) == attempt > num_attempts

\* utils.py:104  if attempt >= num_attempts: raise
Exhausted(attempt, num_attempts) == attempt >= num_attempts

\* Variant of AttemptOf: the attempts are counted for each kind, a kind that
\* fails for the first time being at its first attempt.
AttemptOfKind(this_run, k) == IF k \in this_run.seen THEN this_run.attempt ELSE 1

\* utils.py:77, 104  the one counter of the run is compared with the budget of
\* whatever kind has failed
AttemptOf(this_run, k) == this_run.attempt

\* Variant of DelayAttempt: delay_fn is given the number of the attempt that
\* failed.
DelayAttemptFailed(attempt) == attempt

\* utils.py:118-120  attempt += 1 comes before delay_fn(e, attempt): with
\* attempt the counter at the failure, delay_fn is given the number of the
\* attempt to come
DelayAttempt(attempt) == attempt + 1

\* Variant of CountAttempt: one counter for all runs of the wrapped function.
CountAttemptShared(runs, r) == [q \in DOMAIN runs |-> [runs[q] EXCEPT !.attempt = @ + 1]]

\* utils.py:118  attempt += 1, on the local variable of this call of wrapper()
CountAttempt(runs, r) == [runs EXCEPT ![r].attempt = @ + 1]

\* utils.py:77  the state of a run before wrapper() is entered
IdleRun ==
    [pc |-> "idle", attempt |-> 0, calls |-> 0, seen |-> {}, failure |-> "none",
     delays |-> 0, delay_arg |-> <<>>, raised |-> "none"]

\* utils.py:76-78  wrapper() is entered: attempt = 1
RunStart(r) ==
    /\ run[r].pc = "idle"
    /\ run' = [run EXCEPT ![r] = [IdleRun EXCEPT !.pc = "call", !.attempt = 1]]
    /\ UNCHANGED exception_config
    /\ UNCHANGED <<refVars, cacheVars, stageVars, tagVars, pipeVars>>

\* utils.py:80  func returns: wrapper returns its value
RunReturn(r) ==
    /\ run[r].pc = "call"
    /\ run' = [run EXCEPT ![r].pc = "returned", ![r].calls = @ + 1]
    /\ UNCHANGED exception_config
    /\ UNCHANGED <<refVars, cacheVars, stageVars, tagVars, pipeVars>>

\* utils.py:81-131  func raises a failure of kind k: re-raise it when the
\* attempt counter has reached the budget of k, else count the attempt, ask
\* delay_fn(e, attempt) for the delay and sleep.
RunFail(r, k) ==
    /\ run[r].pc = "call"
    /\ LET num_attempts == NumAttempts(exception_config, k)
           called == [run[r] EXCEPT !.calls = @ + 1, !.seen = @ \cup {k},
                                    !.failure = k]
       IN  IF Exhausted(AttemptOf(run[r], k), num_attempts)
           THEN run' = [run EXCEPT ![r] =
                            [called EXCEPT !.pc = "raised", !.raised = k]]
           ELSE run' = CountAttempt(
                           [run EXCEPT ![r] =
                               [called EXCEPT !.pc = "sleep",
                                              !.delays = @ + 1,
                                              !.delay_arg = <<k, DelayAttempt(run[r].attempt)>>]],
                           r)
    /\ UNCHANGED exception_config
    /\ UNCHANGED <<refVars, cacheVars, stageVars, tagVars, pipeVars>>

\* utils.py:131, 78  time.sleep returns, the loop calls func again
RunWake(r) ==
    /\ run[r].pc = "sleep"
    /\ run' = [run EXCEPT ![r].pc = "call"]
    /\ UNCHANGED exception_config
    /\ UNCHANGED <<refVars, cacheVars, stageVars, tagVars, pipeVars>>

\* No retry wrapper was built, no run is in flight.
RetryIdle ==
    /\ exception_config = <<>>
    /\ run = [r \in Runs |-> IdleRun]

RetryInit ==
    /\ \E exceptions \in SUBSET Kinds, default_attempts \in Budgets,
          other_exceptions \in BudgetMaps :
          exception_config =
              ExceptionConfig(exceptions, default_attempts, other_exceptions)
    /\ run = [r \in Runs |-> IdleRun]

RetryNext ==
    \E r \in Runs :
        \/ RunStart(r)
        \/ RunReturn(r)
        \/ \E k \in Kinds : RunFail(r, k)
        \/ RunWake(r)


(***************************************************************************)
(* Cache names: _get_project_cache_name, _get_project_cache_image_name     *)
(***************************************************************************)

\* Number of fragments a project or sanitizer name of the model is made of.
MaxNameFrags == 1

\* oss_fuzz_checkout.py:216  the separator "-ofg-cached-", character by character
CacheSep == <<"-", "o", "f", "g", "-", "c", "a", "c", "h", "e", "d", "-">>

\* oss_fuzz_checkout.py:215  the registry root, one lexeme no name contains
RegistryRoot == <<"us-central1-docker.pkg.dev/oss-fuzz/oss-fuzz-gen/">>

\* oss_fuzz_checkout.py:238  the sanitizers, in the order of the loop
Address == <<"a", "d", "d", "r", "e", "s", "s">>

Coverage == <<"c", "o", "v", "e", "r", "a", "g", "e">>

SanitizerOrder == <<Address, Coverage>>

Sanitizers == {SanitizerOrder[i] : i \in 1..Len(SanitizerOrder)}

\* The fragments arbitrary names are put together from.
NameFrags == {<<"a">>, <<"b">>, <<"-">>, CacheSep}

RECURSIVE NamesUpTo(_)
NamesUpTo(n) ==
    IF n = 0 THEN {<<>>}
    ELSE LET shorter == NamesUpTo(n - 1)
         IN  shorter \cup {f \o w : f \in NameFrags, w \in shorter}

\* Arbitrary strings, the ones with the separator in them included.
Names == NamesUpTo(MaxNameFrags)

\* Mutant of _get_project_cache_image_name: the sanitizer is left out.
ImageNameWithoutSanitizer(project, sanitizer) ==
    RegistryRoot \o project \o CacheSep

\* oss_fuzz_checkout.py:211-217
_get_project_cache_image_name(project, sanitizer) ==
    RegistryRoot \o project \o CacheSep \o sanitizer

\* oss_fuzz_checkout.py:206-208
_get_project_cache_name(project) ==
    <<"gcr.io.oss-fuzz.">> \o project \o <<"_cache">>

\* No key was named yet.
RefIdle == named = <<>>

\* A caller asks for the image name of the key (project, sanitizer).
ImageRef(project, sanitizer) ==
    /\ Len(named) < 2
    /\ named' = Append(named,
                   [project |-> project, sanitizer |-> sanitizer,
                    image |-> _get_project_cache_image_name(project, sanitizer)])
    /\ UNCHANGED <<retryVars, cacheVars, stageVars, tagVars, pipeVars>>

RefNext == \E project \in Names, sanitizer \in Names : ImageRef(project, sanitizer)


(***************************************************************************)
(* is_image_cached and _prepare_image_cache against docker                 *)
(***************************************************************************)

\* The project whose images are cached.
CacheProject == <<"z", "l", "i", "b">>

\* How subprocess.run(..., check=True) can end: exit status 0, a non-zero exit
\* status (CalledProcessError), or the command cannot be started (OSError).
Exits == {"ok", "nonzero", "oserror"}

\* docker manifest inspect <image>, docker pull <image>: exit status 0 needs
\* the registry to hold the image and to be reachable.
RegistryExits(image) ==
    {"nonzero", "oserror"} \cup (IF image \in registry THEN {"ok"} ELSE {})

\* docker commit <container> <image>, docker container rm <container>: exit
\* status 0 needs the container.
ContainerExits(container) ==
    {"nonzero", "oserror"} \cup (IF container \in containers THEN {"ok"} ELSE {})

\* oss_fuzz_checkout.py:305-319  the result of is_image_cached, given how its
\* docker manifest inspect ended: only CalledProcessError is caught.
is_image_cached(exit) ==
    CASE exit = "ok" -> "true"
      [] exit = "nonzero" -> "false"
      [] OTHER -> "raised"

\* The commands of the call so far hold one of command cmd for sanitizer s
\* that ended with exit.
Logged(cmd, s, exit) ==
    \E n \in 1..Len(docker_log) :
        docker_log[n] = [cmd |-> cmd, sanitizer |-> s, exit |-> exit]

LogCommand(cmd, s, exit) ==
    docker_log' = Append(docker_log, [cmd |-> cmd, sanitizer |-> s, exit |-> exit])

\* oss_fuzz_checkout.py:305-319  is_image_cached called from outside
IsImageCachedCall(s, exit) ==
    /\ exit \in RegistryExits(_get_project_cache_image_name(CacheProject, s))
    /\ query' = [sanitizer |-> s, exit |-> exit, result |-> is_image_cached(exit),
                 committed |-> Logged("commit", s, "ok"),
                 pull_failed |-> Logged("pull", s, "nonzero")]
    /\ UNCHANGED <<registry, images, containers, has_script, prep, docker_log>>
    /\ UNCHANGED <<retryVars, refVars, stageVars, tagVars, pipeVars>>

PrepSanitizer == SanitizerOrder[prep.i]

PrepImage == _get_project_cache_image_name(CacheProject, PrepSanitizer)

\* Variant of PrepContinue: the sanitizer is built where the loop would go on.
PrepContinueBuilds(p) == [p EXCEPT !.pc = "build"]

\* oss_fuzz_checkout.py:238, 290  the loop goes on to the next sanitizer, or
\* ends: return True
PrepContinue(p) ==
    IF p.i < Len(SanitizerOrder)
    THEN [p EXCEPT !.pc = "check1", !.i = @ + 1]
    ELSE [p EXCEPT !.pc = "done", !.result = "true"]

\* Mutant of PrepFail: a failed build or commit skips to the next sanitizer.
PrepFailSkips(p) == PrepContinue(p)

\* oss_fuzz_checkout.py:269-271, 279-281  except CalledProcessError: return False
PrepFail(p) == [p EXCEPT !.pc = "done", !.result = "false"]

\* An exception _prepare_image_cache does not catch leaves it.
PrepRaise(p) == [p EXCEPT !.pc = "raised"]

\* Variant of _has_cache_build_script: every project counts as having one.
HasCacheBuildScriptAlways(script_is_file) == TRUE

\* oss_fuzz_checkout.py:220-223  os.path.isfile(fuzzer_build_script/<project>)
_has_cache_build_script(script_is_file) == script_is_file

\* oss_fuzz_checkout.py:226-237  _prepare_image_cache is entered
PrepStart ==
    /\ prep.pc = "idle"
    /\ prep' = IF _has_cache_build_script(has_script)
               THEN [prep EXCEPT !.pc = "check1", !.i = 1]
               ELSE [prep EXCEPT !.pc = "done", !.result = "false"]
    /\ UNCHANGED <<registry, images, containers, has_script, docker_log, query>>
    /\ UNCHANGED <<retryVars, refVars, stageVars, tagVars, pipeVars>>

\* oss_fuzz_checkout.py:239-243  if is_image_cached(...): continue
PrepCheck1(exit) ==
    /\ prep.pc = "check1"
    /\ exit \in RegistryExits(PrepImage)
    /\ LogCommand("inspect", PrepSanitizer, exit)
    /\ prep' = CASE is_image_cached(exit) = "true" -> PrepContinue(prep)
                 [] is_image_cached(exit) = "false" -> [prep EXCEPT !.pc = "pull"]
                 [] OTHER -> PrepRaise(prep)
    /\ UNCHANGED <<registry, images, containers, has_script, query>>
    /\ UNCHANGED <<retryVars, refVars, stageVars, tagVars, pipeVars>>

\* oss_fuzz_checkout.py:245-251  docker pull, a non-zero exit is only logged
PrepPull(exit) ==
    /\ prep.pc = "pull"
    /\ exit \in RegistryExits(PrepImage)
    /\ LogCommand("pull", PrepSanitizer, exit)
    /\ images' = IF exit = "ok" THEN images \cup {PrepImage} ELSE images
    /\ prep' = IF exit = "oserror" THEN PrepRaise(prep)
               ELSE [prep EXCEPT !.pc = "check2"]
    /\ UNCHANGED <<registry, containers, has_script, query>>
    /\ UNCHANGED <<retryVars, refVars, stageVars, tagVars, pipeVars>>

\* oss_fuzz_checkout.py:253-255  the second is_image_cached
PrepCheck2(exit) ==
    /\ prep.pc = "check2"
    /\ exit \in RegistryExits(PrepImage)
    /\ LogCommand("inspect", PrepSanitizer, exit)
    /\ prep' = CASE is_image_cached(exit) = "true" -> PrepContinue(prep)
                 [] is_image_cached(exit) = "false" -> [prep EXCEPT !.pc = "build"]
                 [] OTHER -> PrepRaise(prep)
    /\ UNCHANGED <<registry, images, containers, has_script, query>>
    /\ UNCHANGED <<retryVars, refVars, stageVars, tagVars, pipeVars>>

\* oss_fuzz_checkout.py:257-271  infra/helper.py build_fuzzers, which saves its
\* container under the cache name
PrepBuild(exit) ==
    /\ prep.pc = "build"
    /\ exit \in Exits
    /\ LogCommand("build", PrepSanitizer, exit)
    /\ containers' = IF exit = "ok"
                     THEN containers \cup {_get_project_cache_name(CacheProject)}
                     ELSE containers
    /\ prep' = CASE exit = "ok" -> [prep EXCEPT !.pc = "commit"]
                 [] exit = "nonzero" -> PrepFail(prep)
                 [] OTHER -> PrepRaise(prep)
    /\ UNCHANGED <<registry, images, has_script, query>>
    /\ UNCHANGED <<retryVars, refVars, stageVars, tagVars, pipeVars>>

\* oss_fuzz_checkout.py:273-282  docker commit <container> <image>
PrepCommit(exit) ==
    /\ prep.pc = "commit"
    /\ exit \in ContainerExits(_get_project_cache_name(CacheProject))
    /\ LogCommand("commit", PrepSanitizer, exit)
    /\ images' = IF exit = "ok" THEN images \cup {PrepImage} ELSE images
    /\ prep' = CASE exit = "ok" -> [prep EXCEPT !.pc = "rm"]
                 [] exit = "nonzero" -> PrepFail(prep)
                 [] OTHER -> PrepRaise(prep)
    /\ UNCHANGED <<registry, containers, has_script, query>>
    /\ UNCHANGED <<retryVars, refVars, stageVars, tagVars, pipeVars>>

\* oss_fuzz_checkout.py:284-289  docker container rm, a non-zero exit is only
\* logged
PrepRemove(exit) ==
    /\ prep.pc = "rm"
    /\ exit \in ContainerExits(_get_project_cache_name(CacheProject))
    /\ LogCommand("rm", PrepSanitizer, exit)
    /\ containers' = IF exit = "ok"
                     THEN containers \ {_get_project_cache_name(CacheProject)}
                     ELSE containers
    /\ prep' = IF exit = "oserror" THEN PrepRaise(prep) ELSE PrepContinue(prep)
    /\ UNCHANGED <<registry, images, has_script, query>>
    /\ UNCHANGED <<retryVars, refVars, stageVars, tagVars, pipeVars>>

IdlePrep == [pc |-> "idle", i |-> 0, result |-> "none"]

NoQuery ==
    [sanitizer |-> <<>>, exit |-> "none", result |-> "none",
     committed |-> FALSE, pull_failed |-> FALSE]

\* The registry holds any of the images of the project.
RegistryAny ==
    registry \in SUBSET {_get_project_cache_image_name(CacheProject, s) :
                            s \in Sanitizers}

\* The local docker is empty and no call is in flight.
CacheQuiet ==
    /\ images = {}
    /\ containers = {}
    /\ prep = IdlePrep
    /\ docker_log = <<>>
    /\ query = NoQuery

\* Nothing is cached anywhere.
CacheIdle == registry = {} /\ has_script = FALSE /\ CacheQuiet

CacheInit == RegistryAny /\ has_script \in BOOLEAN /\ CacheQuiet

CacheNext ==
    \/ PrepStart
    \/ \E exit \in Exits :
          \/ PrepCheck1(exit)
          \/ PrepPull(exit)
          \/ PrepCheck2(exit)
          \/ PrepBuild(exit)
          \/ PrepCommit(exit)
          \/ PrepRemove(exit)
    \/ \E s \in Sanitizers, exit \in Exits : IsImageCachedCall(s, exit)


(***************************************************************************)
(* The staged project: create_ossfuzz_project,                             *)
(* rewrite_project_to_cached_project, prepare_build                        *)
(***************************************************************************)

\* Largest number of lines (pieces of split("\n")) of a project's Dockerfile.
MaxLines == 3

\* A file that does not exist. The text of a file is the sequence
\* text.split("\n"), which is never empty.
Absent == <<>>

EmptyLine == <<>>

\* oss_fuzz_checkout.py:349  the base image the pattern names
BaseBuilder == "gcr.io/oss-fuzz-base/base-builder"

FromBaseLine == <<"FROM", " ", BaseBuilder, "-python">>

FromOtherLine == <<"FROM", " ", "ubuntu">>

ArgOriginalLine == <<"ARG", " ", "arch=x86_64">>

CopyLine == <<"COPY", " ", "build.sh", " ", "$SRC/">>

RunLine == <<"RUN", " ", "make">>

RemarkLine == <<"# ", "FROM", " ", BaseBuilder>>

DockerLines ==
    {FromBaseLine, FromOtherLine, ArgOriginalLine, CopyLine, RunLine, RemarkLine,
     EmptyLine}

Dockerfiles == UNION {[1..n -> DockerLines] : n \in 1..MaxLines}

\* oss_fuzz_checkout.py:340, 388
Dockerfile == <<"Dockerfile">>

\* oss_fuzz_checkout.py:338, 389
OriginalDockerfile == <<"Dockerfile_original">>

\* oss_fuzz_checkout.py:329-331, 392-394  Dockerfile_{sanitizer}_cached
CachedDockerfile(sanitizer) == <<"Dockerfile_">> \o sanitizer \o <<"_cached">>

FileNames == {Dockerfile, OriginalDockerfile} \cup {CachedDockerfile(s) : s \in Sanitizers}

\* str.startswith
StartsWith(line, keyword) == Len(line) >= 1 /\ line[1] = keyword

\* oss_fuzz_checkout.py:348-350  the pattern matches at lexeme n of the line
BasePatternAt(line, n) ==
    /\ n + 2 <= Len(line)
    /\ line[n] = "FROM"
    /\ line[n + 1] = " "
    /\ line[n + 2] = BaseBuilder

\* Variant of ReSubBase: the image of every FROM line is replaced.
ReSubAnyFrom(line) ==
    IF StartsWith(line, "FROM") THEN <<"FROM", " ", "$CACHE_IMAGE">> ELSE line

\* oss_fuzz_checkout.py:348-350  re.sub on one line: the first match and the
\* rest of the line (.*) become FROM $CACHE_IMAGE
ReSubBase(line) ==
    IF \E n \in 1..Len(line) : BasePatternAt(line, n)
    THEN LET n == CHOOSE m \in 1..Len(line) :
                      /\ BasePatternAt(line, m)
                      /\ \A k \in 1..(m - 1) : ~BasePatternAt(line, k)
         IN  SubSeq(line, 1, n - 1) \o <<"FROM", " ", "$CACHE_IMAGE">>
    ELSE line

\* oss_fuzz_checkout.py:346  "ARG CACHE_IMAGE=" + cached_image_name
ArgLine(cached_image_name) == <<"ARG", " ", "CACHE_IMAGE=">> \o cached_image_name

\* Variant of NoLines: the unset index of the last COPY names a line.
NoLinesNamesLine ==
    [arg_line |-> -1, from_line |-> -1, copy_fuzzer_line |-> -1, copy_build_line |-> 1]

\* oss_fuzz_checkout.py:356-359
NoLines ==
    [arg_line |-> -1, from_line |-> -1, copy_fuzzer_line |-> -1, copy_build_line |-> -1]

\* Mutant of ScanLine: the first two COPY lines are kept, not the last two.
ScanLineFirstCopies(found, line, line_idx) ==
    [arg_line |->
        IF StartsWith(line, "ARG") /\ found.arg_line = -1
        THEN line_idx ELSE found.arg_line,
     from_line |->
        IF StartsWith(line, "FROM") /\ found.from_line = -1
        THEN line_idx ELSE found.from_line,
     copy_fuzzer_line |->
        IF StartsWith(line, "COPY") /\ found.copy_fuzzer_line = -1
        THEN line_idx ELSE found.copy_fuzzer_line,
     copy_build_line |->
        IF StartsWith(line, "COPY") /\ found.copy_fuzzer_line # -1
                                    /\ found.copy_build_line = -1
        THEN line_idx ELSE found.copy_build_line]

\* oss_fuzz_checkout.py:362-368  the body of the scanning loop
ScanLine(found, line, line_idx) ==
    [arg_line |->
        IF StartsWith(line, "ARG") /\ found.arg_line = -1
        THEN line_idx ELSE found.arg_line,
     from_line |->
        IF StartsWith(line, "FROM") /\ found.from_line = -1
        THEN line_idx ELSE found.from_line,
     copy_fuzzer_line |->
        IF StartsWith(line, "COPY") THEN found.copy_build_line
        ELSE found.copy_fuzzer_line,
     copy_build_line |->
        IF StartsWith(line, "COPY") THEN line_idx ELSE found.copy_build_line]

\* oss_fuzz_checkout.py:361  for line_idx, line in enumerate(...): the lines
\* from 0-based index line_idx on
RECURSIVE Scan(_, _, _)
Scan(lines, line_idx, found) ==
    IF line_idx >= Len(lines) THEN found
    ELSE Scan(lines, line_idx + 1, ScanLine(found, lines[line_idx + 1], line_idx))

\* Variant of LinesToKeep: the lines are scanned as they were before the ARG
\* line was put first, and the indices found are moved by one.
LinesToKeepScannedBefore(lines) ==
    LET found == Scan(Tail(lines), 0, NoLines)
    IN  {0} \cup {i + 1 : i \in {found.arg_line, found.from_line,
                                 found.copy_fuzzer_line, found.copy_build_line} \ {-1}}

\* oss_fuzz_checkout.py:370
LinesToKeep(lines) ==
    LET found == Scan(lines, 0, NoLines)
    IN  {found.arg_line, found.from_line, found.copy_fuzzer_line, found.copy_build_line}

\* oss_fuzz_checkout.py:346-376  the text written to the cached Dockerfile,
\* from the text of Dockerfile_original: the ARG line is put first, the base
\* image replaced, then the lines are scanned and all but the kept commented.
\* Every line is written with "\n" after it, so the text ends with an empty piece.
RewrittenContent(docker_content, cached_image_name) ==
    LET lines == [n \in 1..(Len(docker_content) + 1) |->
                     IF n = 1 THEN ReSubBase(ArgLine(cached_image_name))
                     ELSE ReSubBase(docker_content[n - 1])]
        keep == LinesToKeep(lines)
    IN  [n \in 1..Len(lines) |->
            IF (n - 1) \notin keep THEN <<"# ">> \o lines[n] ELSE lines[n]]
        \o <<EmptyLine>>

\* Mutant of AlreadyConverted: the cached Dockerfile is written again.
AlreadyConvertedNever(fs, sanitizer) == FALSE

\* oss_fuzz_checkout.py:332  os.path.isfile(cached_dockerfile)
AlreadyConverted(fs, sanitizer) == fs[CachedDockerfile(sanitizer)] # Absent

\* Variant of HasOriginal: the backup is taken again at every rewrite.
HasOriginalNever(fs) == FALSE

\* oss_fuzz_checkout.py:339  os.path.isfile(original_dockerfile)
HasOriginal(fs) == fs[OriginalDockerfile] # Absent

\* shutil.copy(src, dst): the files after it; src is opened first, so nothing
\* is written when it does not exist (FileNotFoundError).
Copied(fs, src, dst) == [fs EXCEPT ![dst] = fs[src]]

NoFiles == [f \in FileNames |-> Absent]

NoCall ==
    [op |-> "none", sanitizer |-> <<>>, outcome |-> "none", cached |-> "none",
     wrote |-> {}, had_artifact |-> FALSE, had_original |-> FALSE,
     returned |-> <<>>]

\* oss_fuzz_checkout.py:438-440  os.path.join(OSS_FUZZ_DIR, "projects", name)
generated_project_path == <<"OSS_FUZZ_DIR", "projects", "generated_oss_fuzz_project">>

\* Variant of CachingDisabled: the switch is not looked at.
CachingDisabledNever(enabled) == FALSE

\* oss_fuzz_checkout.py:35, 386, 458, 503  if not ENABLE_CACHING
CachingDisabled(enabled) == ~enabled

\* Variant of PathExists: the directory is copied at every call.
PathExistsNever(is_staged) == FALSE

\* oss_fuzz_checkout.py:441  os.path.exists(generated_project_path)
PathExists(is_staged) == is_staged

\* oss_fuzz_checkout.py:434-447, 479-492  create_ossfuzz_project(_by_name):
\* nothing is copied when the directory exists
create_ossfuzz_project ==
    /\ IF PathExists(staged)
       THEN UNCHANGED <<staged, files>>
       ELSE /\ staged' = TRUE
            /\ files' = [NoFiles EXCEPT ![Dockerfile] = project_dockerfile]
    /\ last' = [NoCall EXCEPT !.op = "stage", !.outcome = "ok",
                              !.wrote = IF PathExists(staged) THEN {} ELSE {Dockerfile},
                              !.returned = generated_project_path]
    /\ UNCHANGED <<enable_caching, project_dockerfile>>

\* A caller stages the project.
CreateOssfuzzProject ==
    /\ create_ossfuzz_project
    /\ UNCHANGED <<retryVars, refVars, cacheVars, tagVars, pipeVars>>

\* oss_fuzz_checkout.py:322-380  rewrite_project_to_cached_project, called
\* as its callers do, with the name of a project that was staged
rewrite_project_to_cached_project(sanitizer) ==
    LET call == [NoCall EXCEPT !.op = "rewrite", !.sanitizer = sanitizer,
                               !.had_artifact =
                                   files[CachedDockerfile(sanitizer)] # Absent,
                               !.had_original = files[OriginalDockerfile] # Absent]
        cached_image_name == _get_project_cache_image_name(CacheProject, sanitizer)
    IN  /\ staged
        /\ IF AlreadyConverted(files, sanitizer)
           THEN /\ UNCHANGED files
                /\ last' = [call EXCEPT !.outcome = "ok"]
           ELSE IF ~HasOriginal(files) /\ files[Dockerfile] = Absent
           THEN /\ UNCHANGED files
                /\ last' = [call EXCEPT !.outcome = "raised"]
           ELSE LET backed == IF HasOriginal(files) THEN files
                              ELSE Copied(files, Dockerfile, OriginalDockerfile)
                IN  /\ files' = [backed EXCEPT ![CachedDockerfile(sanitizer)] =
                                    RewrittenContent(backed[OriginalDockerfile],
                                                     cached_image_name)]
                    /\ last' = [call EXCEPT
                                   !.outcome = "ok",
                                   !.wrote = {CachedDockerfile(sanitizer)} \cup
                                             (IF HasOriginal(files) THEN {}
                                              ELSE {OriginalDockerfile})]
        /\ UNCHANGED <<enable_caching, project_dockerfile, staged>>

\* A caller rewrites the staged project for a sanitizer.
RewriteProjectToCachedProject(sanitizer) ==
    /\ rewrite_project_to_cached_project(sanitizer)
    /\ UNCHANGED <<retryVars, refVars, cacheVars, tagVars, pipeVars>>

\* oss_fuzz_checkout.py:383-398  prepare_build on a staged project, exit being
\* how the docker manifest inspect of its is_image_cached ends
prepare_build(sanitizer, exit) ==
    LET call == [NoCall EXCEPT !.op = "prepare_build", !.sanitizer = sanitizer,
                               !.had_artifact =
                                   files[CachedDockerfile(sanitizer)] # Absent,
                               !.had_original = files[OriginalDockerfile] # Absent]
        src == IF is_image_cached(exit) = "true" THEN CachedDockerfile(sanitizer)
               ELSE OriginalDockerfile
    IN  /\ staged
        /\ exit \in RegistryExits(_get_project_cache_image_name(CacheProject, sanitizer))
        /\ IF CachingDisabled(enable_caching)
           THEN /\ UNCHANGED files
                /\ last' = [call EXCEPT !.outcome = "ok"]
           ELSE IF is_image_cached(exit) = "raised" \/ files[src] = Absent
           THEN /\ UNCHANGED files
                /\ last' = [call EXCEPT !.outcome = "raised",
                                        !.cached = is_image_cached(exit)]
           ELSE /\ files' = Copied(files, src, Dockerfile)
                /\ last' = [call EXCEPT !.outcome = "ok",
                                        !.cached = is_image_cached(exit),
                                        !.wrote = {Dockerfile}]
        /\ UNCHANGED <<enable_caching, project_dockerfile, staged>>

\* A caller prepares a build of the staged project.
PrepareBuild(sanitizer, exit) ==
    /\ prepare_build(sanitizer, exit)
    /\ UNCHANGED <<retryVars, refVars, cacheVars, tagVars, pipeVars>>

\* No project is staged.
StageIdle ==
    /\ enable_caching = TRUE
    /\ project_dockerfile = <<EmptyLine>>
    /\ staged = FALSE
    /\ files = NoFiles
    /\ last = NoCall

StageInit ==
    /\ enable_caching \in BOOLEAN
    /\ project_dockerfile \in Dockerfiles
    /\ staged = FALSE
    /\ files = NoFiles
    /\ last = NoCall

StageNext ==
    \/ CreateOssfuzzProject
    \/ \E s \in Sanitizers : RewriteProjectToCachedProject(s)
    \/ \E s \in Sanitizers, exit \in Exits : PrepareBuild(s, exit)

(***************************************************************************)
(* Docker tag names: rectify_docker_tag                                    *)
(***************************************************************************)

\* Longest tag handed to rectify_docker_tag.
MaxTagLen == 4

\* Characters matched by \w: a letter and the underscore stand for the class.
WordChars == {"a", "_"}

\* The characters tags are made of: word characters, the dot, the dash, and
\* two characters outside [\w_.].
TagChars == WordChars \cup {".", "-", ":", "/"}

TagsUpTo(n) == UNION {[1..k -> TagChars] : k \in 0..n}

Tags == TagsUpTo(MaxTagLen)

\* oss_fuzz_checkout.py:427  re.sub(r"::", "-", tag): leftmost matches, not
\* overlapping
RECURSIVE ReSubColons(_)
ReSubColons(tag) ==
    IF Len(tag) < 2 THEN tag
    ELSE IF tag[1] = ":" /\ tag[2] = ":"
         THEN <<"-">> \o ReSubColons(SubSeq(tag, 3, Len(tag)))
         ELSE <<tag[1]>> \o ReSubColons(Tail(tag))

\* oss_fuzz_checkout.py:428  re.sub(r"[^\w_.]", "-", tag)
ReSubInvalid(tag) ==
    [i \in 1..Len(tag) |-> IF tag[i] \in WordChars \cup {"."} THEN tag[i] ELSE "-"]

\* Length of the run of [-_] that starts tag.
RECURSIVE RunLength(_)
RunLength(tag) ==
    IF tag # <<>> /\ tag[1] \in {"-", "_"} THEN 1 + RunLength(Tail(tag)) ELSE 0

KeepRuns(tag) == tag

\* oss_fuzz_checkout.py:430  re.sub(r"[-_]{2,}", "-", tag): the quantifier is
\* greedy, each maximal run of two or more becomes one dash
RECURSIVE ReSubRuns(_)
ReSubRuns(tag) ==
    IF tag = <<>> THEN tag
    ELSE IF RunLength(tag) >= 2
         THEN <<"-">> \o ReSubRuns(SubSeq(tag, RunLength(tag) + 1, Len(tag)))
         ELSE <<tag[1]>> \o ReSubRuns(Tail(tag))

\* oss_fuzz_checkout.py:425-431
rectify_docker_tag(docker_tag) == ReSubRuns(ReSubInvalid(ReSubColons(docker_tag)))

NoTag == [called |-> FALSE, origin |-> <<>>, docker_tag |-> <<>>,
          valid_docker_tag |-> <<>>, resubmitted |-> FALSE]

TagIdle == tagged = NoTag

\* A caller rectifies a name; each behaviour follows one name.
RectifyDockerTag(docker_tag) ==
    /\ ~tagged.called
    /\ tagged' = [called |-> TRUE, origin |-> docker_tag, docker_tag |-> docker_tag,
                  valid_docker_tag |-> rectify_docker_tag(docker_tag),
                  resubmitted |-> FALSE]
    /\ UNCHANGED <<retryVars, refVars, cacheVars, stageVars, pipeVars>>

\* A caller rectifies the name the last call returned.
RectifyAgain ==
    /\ tagged.called
    /\ tagged' = [tagged EXCEPT !.docker_tag = tagged.valid_docker_tag,
                                !.valid_docker_tag = rectify_docker_tag(tagged.valid_docker_tag),
                                !.resubmitted = TRUE]
    /\ UNCHANGED <<retryVars, refVars, cacheVars, stageVars, pipeVars>>

TagNext ==
    \/ \E docker_tag \in Tags : RectifyDockerTag(docker_tag)
    \/ RectifyAgain


(***************************************************************************)
(* The staging pipeline: prepare_project_image(_by_name)                   *)
(***************************************************************************)

\* No call of prepare_project_image is in flight.  steps are the functions
\* called so far, lookups the results of is_image_cached, built_with the
\* Dockerfile of the staged project when _build_image was called.
IdlePipe == [pc |-> "idle", steps |-> <<>>, lookups |-> <<>>, built_with |-> Absent]

PipeIdle == pipe = IdlePipe

\* oss_fuzz_checkout.py:452-458, 497-503  the project is staged under a new
\* name, then ENABLE_CACHING is tested
PipeStage ==
    /\ pipe.pc = "idle"
    /\ create_ossfuzz_project
    /\ pipe' = [pipe EXCEPT !.pc = IF CachingDisabled(enable_caching) THEN "build"
                                  ELSE "lookup",
                            !.steps = Append(@, "stage")]
    /\ UNCHANGED <<retryVars, refVars, cacheVars, tagVars>>

\* oss_fuzz_checkout.py:460, 505  elif is_image_cached(project, "address")
PipeLookup(exit) ==
    /\ pipe.pc = "lookup"
    /\ exit \in RegistryExits(_get_project_cache_image_name(CacheProject, Address))
    /\ pipe' = [pipe EXCEPT !.pc = CASE is_image_cached(exit) = "true" -> "rewrite"
                                     [] is_image_cached(exit) = "false" -> "build"
                                     [] OTHER -> "raised",
                            !.steps = Append(@, "lookup"),
                            !.lookups = Append(@, is_image_cached(exit))]
    /\ UNCHANGED <<retryVars, refVars, cacheVars, stageVars, tagVars>>

\* oss_fuzz_checkout.py:463-465, 508-510
PipeRewrite ==
    /\ pipe.pc = "rewrite"
    /\ rewrite_project_to_cached_project(Address)
    /\ pipe' = [pipe EXCEPT !.pc = IF last'.outcome = "ok" THEN "select" ELSE "raised",
                            !.steps = Append(@, "rewrite")]
    /\ UNCHANGED <<retryVars, refVars, cacheVars, tagVars>>

\* oss_fuzz_checkout.py:467, 512  prepare_build(project, "address", ...)
PipeSelect(exit) ==
    /\ pipe.pc = "select"
    /\ prepare_build(Address, exit)
    /\ pipe' = [pipe EXCEPT !.pc = IF last'.outcome = "ok" THEN "build" ELSE "raised",
                            !.steps = Append(@, "select"),
                            !.lookups = Append(@, is_image_cached(exit))]
    /\ UNCHANGED <<retryVars, refVars, cacheVars, tagVars>>

\* oss_fuzz_checkout.py:476, 522, 401-422  return _build_image(...): the image
\* name, "" after a non-zero exit, or the OSError of subprocess.run
PipeBuild(exit) ==
    /\ pipe.pc = "build"
    /\ exit \in Exits
    /\ pipe' = [pipe EXCEPT !.pc = IF exit = "oserror" THEN "raised" ELSE "done",
                            !.steps = Append(@, "build"),
                            !.built_with = files[Dockerfile]]
    /\ UNCHANGED <<retryVars, refVars, cacheVars, stageVars, tagVars>>

\* oss_fuzz_checkout.py:383-398  a later build of the staged project calls
\* prepare_build again
PipePrepareBuild(sanitizer, exit) ==
    /\ pipe.pc = "done"
    /\ prepare_build(sanitizer, exit)
    /\ UNCHANGED <<retryVars, refVars, cacheVars, tagVars, pipeVars>>

PipeNext ==
    \/ PipeStage
    \/ \E exit \in Exits : PipeLookup(exit)
    \/ PipeRewrite
    \/ \E exit \in Exits : PipeSelect(exit)
    \/ \E exit \in Exits : PipeBuild(exit)
    \/ \E s \in Sanitizers, exit \in Exits : PipePrepareBuild(s, exit)

\* A project to stage, the registry in any state.
Init ==
    /\ StageInit /\ RegistryAny /\ has_script = FALSE /\ CacheQuiet
    /\ RetryIdle /\ RefIdle /\ TagIdle /\ PipeIdle

Spec == Init /\ [][StageNext]_vars

InitCache == CacheInit /\ RetryIdle /\ RefIdle /\ StageIdle /\ TagIdle /\ PipeIdle

SpecCache == InitCache /\ [][CacheNext]_vars

InitRef == RefIdle /\ RetryIdle /\ CacheIdle /\ StageIdle /\ TagIdle /\ PipeIdle

SpecRef == InitRef /\ [][RefNext]_vars

InitRetry == RetryInit /\ RefIdle /\ CacheIdle /\ StageIdle /\ TagIdle /\ PipeIdle

SpecRetry == InitRetry /\ [][RetryNext]_vars

InitTag == TagIdle /\ RetryIdle /\ RefIdle /\ CacheIdle /\ StageIdle /\ PipeIdle

SpecTag == InitTag /\ [][TagNext]_vars

\* A project to hand to prepare_project_image, the registry in any state.
InitPipe ==
    /\ StageInit /\ RegistryAny /\ has_script = FALSE /\ CacheQuiet
    /\ RetryIdle /\ RefIdle /\ TagIdle /\ PipeIdle

SpecPipe == InitPipe /\ [][PipeNext]_vars

(***************************************************************************)
(* Claims about the retry wrapper, checked under SpecRetry                 *)
(***************************************************************************)

\* The run r has failed on every attempt made so far, each time with kind k.
AlwaysFailedWith(r, k) ==
    /\ run[r].pc \in {"call", "sleep", "raised"}
    /\ run[r].seen = {k}

\* C1: a run whose operation fails on every attempt with one kind K that is
\* listed with budget n >= 1 invokes the operation exactly n times and then
\* propagates the failure: it never makes more than n calls, and it has
\* propagated exactly when the n-th call has failed.
C1_BudgetExact ==
    \A r \in Runs : \A k \in DOMAIN exception_config :
        (exception_config[k] >= 1 /\ AlwaysFailedWith(r, k)) =>
            /\ run[r].calls <= exception_config[k]
            /\ (run[r].pc = "raised") <=> (run[r].calls = exception_config[k])
            /\ run[r].pc = "raised" => run[r].raised = k

\* C1 witness: a run that failed three times with KindA, budget 3, and raised.
C1_Witness ==
    \E r \in Runs :
        /\ "KindA" \in DOMAIN exception_config
        /\ exception_config["KindA"] = 3
        /\ run[r].pc = "raised"
        /\ run[r].seen = {"KindA"}
        /\ run[r].calls = 3

\* C2: when the first attempt fails with a kind that is not listed, the
\* operation has been invoked once, no delay was taken and the failure is
\* propagated, whatever else the configuration lists.
C2_UnlistedFailsFast ==
    \A r \in Runs : \A k \in Kinds \ DOMAIN exception_config :
        (run[r].calls = 1 /\ run[r].seen = {k}) =>
            /\ run[r].pc = "raised"
            /\ run[r].raised = k
            /\ run[r].delays = 0

\* C2 witness: KindB is unlisted, other kinds are listed with budgets above 1,
\* and a run propagated KindB after its single call.
C2_Witness ==
    \E r \in Runs :
        /\ DOMAIN exception_config = {"KindA", "KindASub"}
        /\ \A t \in DOMAIN exception_config : exception_config[t] > 1
        /\ run[r].pc = "raised"
        /\ run[r].raised = "KindB"
        /\ run[r].calls = 1

\* The kind k is not listed itself, and a proper supertype of it is listed with
\* a budget above 1.
OnlySupertypeListed(k) ==
    /\ k \notin DOMAIN exception_config
    /\ \E t \in Supertypes(k) \ {k} :
          t \in DOMAIN exception_config /\ exception_config[t] > 1

SameKey(a, b) == a.project = b.project /\ a.sanitizer = b.sanitizer

NoDash(name) == \A n \in 1..Len(name) : name[n] # "-"

\* C5 as claimed: over arbitrary strings, two keys get the same image name
\* if and only if they are the same key.
C5_ImageRefInjective ==
    Len(named) = 2 => ((named[1].image = named[2].image) <=> SameKey(named[1], named[2]))

\* C5 as amended: when neither sanitizer holds the character "-", two keys
\* get the same image name if and only if they are the same key.
C5_ImageRefInjectiveNoDash ==
    (Len(named) = 2 /\ NoDash(named[1].sanitizer) /\ NoDash(named[2].sanitizer)) =>
        ((named[1].image = named[2].image) <=> SameKey(named[1], named[2]))

\* C5 witness: two different keys with dash-free, non-empty sanitizers, the
\* project of one being the separator itself, that got different image names.
C5_Witness ==
    /\ Len(named) = 2
    /\ named[1].sanitizer = <<"a">>
    /\ named[2].sanitizer = <<"b">>
    /\ named[1].project = CacheSep
    /\ named[2].project = <<"a">>
    /\ named[1].image # named[2].image

(***************************************************************************)
(* Claims about the image cache, checked under SpecCache                   *)
(***************************************************************************)

\* C4 as claimed: is_image_cached returns false for every way its registry
\* query can fail, never propagates a failure, and returns true only when the
\* query succeeded.
C4_ExistsSwallowsEveryFailure ==
    query.exit # "none" =>
        /\ query.result \in {"true", "false"}
        /\ query.exit # "ok" => query.result = "false"
        /\ query.result = "true" => query.exit = "ok"

\* A build or a commit of sanitizer s ended with a non-zero exit status.
BuildOrCommitFailed(s) == Logged("build", s, "nonzero") \/ Logged("commit", s, "nonzero")

Inspected(s) == \E exit \in Exits : Logged("inspect", s, exit)

C7_CommittedThenCached ==
    (query.exit # "none" /\ query.committed /\ query.pull_failed) =>
        query.result = "true"

(***************************************************************************)
(* Claims about the staged project, checked under Spec                     *)
(***************************************************************************)

\* C8: rewrite is idempotent per sanitizer: a call that finds the cached
\* Dockerfile of its sanitizer returns without writing any file, so that file
\* stays as it is, and no call writes Dockerfile_original again once it exists.
C8_RewriteIdempotent ==
    [][last'.op = "rewrite" =>
          /\ files[CachedDockerfile(last'.sanitizer)] # Absent =>
                 /\ files' = files
                 /\ last'.wrote = {}
                 /\ last'.outcome = "ok"
          /\ files[OriginalDockerfile] # Absent =>
                 /\ files'[OriginalDockerfile] = files[OriginalDockerfile]
                 /\ OriginalDockerfile \notin last'.wrote]_vars

\* C8 witness: a rewrite found its cached Dockerfile and the backup in place,
\* while the active Dockerfile was no longer the original.
C8_Witness ==
    /\ last.op = "rewrite"
    /\ last.had_artifact
    /\ last.had_original
    /\ last.wrote = {}
    /\ files[Dockerfile] # files[OriginalDockerfile]
    /\ \A s \in Sanitizers : files[CachedDockerfile(s)] # Absent

\* The lines of the original the claim has kept: the first that starts with
\* FROM and the last two that start with COPY (1-based).
KeptOfOriginal(original) ==
    {n \in 1..Len(original) :
        \/ /\ StartsWith(original[n], "FROM")
           /\ \A m \in 1..(n - 1) : ~StartsWith(original[m], "FROM")
        \/ /\ StartsWith(original[n], "COPY")
           /\ Cardinality({m \in (n + 1)..Len(original) :
                              StartsWith(original[m], "COPY")}) < 2}

\* C9: a cached Dockerfile is the injected ARG line followed by every line of
\* the original in its order, each as it reads after the base image was
\* replaced and each ended by a newline; a line is left uncommented exactly
\* when it is the injected ARG line, the first FROM line or one of the last
\* two COPY lines, and every other line is prefixed with the comment marker.
C9_RewrittenShape ==
    \A s \in Sanitizers :
        files[CachedDockerfile(s)] # Absent =>
            LET cached == files[CachedDockerfile(s)]
                original == files[OriginalDockerfile]
            IN  /\ original # Absent
                /\ Len(cached) = Len(original) + 2
                /\ cached[Len(cached)] = EmptyLine
                /\ cached[1] = ArgLine(_get_project_cache_image_name(CacheProject, s))
                /\ \A n \in 1..Len(original) :
                       cached[n + 1] =
                           IF n \in KeptOfOriginal(original)
                           THEN ReSubBase(original[n])
                           ELSE <<"# ">> \o ReSubBase(original[n])

\* C9 witness: the cached Dockerfile of an original of three COPY lines, the
\* first of them commented out and the last two kept.
C9_Witness ==
    /\ files[OriginalDockerfile] = <<CopyLine, CopyLine, CopyLine>>
    /\ files[CachedDockerfile(Address)] # Absent
    /\ files[CachedDockerfile(Address)][2] = <<"# ">> \o CopyLine
    /\ files[CachedDockerfile(Address)][3] = CopyLine
    /\ files[CachedDockerfile(Address)][4] = CopyLine

\* C10 as claimed: with caching enabled and the image cached, prepare_build
\* succeeds on a staged project whatever was done to it before, the cached
\* Dockerfile of the sanitizer exists afterwards, and the active Dockerfile
\* has its content.
C10_SelectCachedSucceeds ==
    (staged /\ last.op = "prepare_build" /\ enable_caching /\ last.cached = "true") =>
        /\ last.outcome = "ok"
        /\ files[CachedDockerfile(last.sanitizer)] # Absent
        /\ files[Dockerfile] = files[CachedDockerfile(last.sanitizer)]

\* C11 as claimed: with caching enabled and the image not cached,
\* prepare_build ends without error on a staged project whatever was done to
\* it before, and leaves the active Dockerfile with the content of the
\* project's original Dockerfile.
C11_SelectOriginalSucceeds ==
    (staged /\ last.op = "prepare_build" /\ enable_caching /\ last.cached = "false") =>
        /\ last.outcome = "ok"
        /\ files[Dockerfile] = project_dockerfile

(***************************************************************************)
(* Claims about tag names, checked under SpecTag                           *)
(***************************************************************************)

\* The characters rectify_docker_tag collapses runs of.
Separators == {"-", "_"}

\* C12: rectifying a rectified name returns it unchanged, and a rectified
\* name holds only word characters, dots and dashes, with no two
\* consecutive characters out of '-' and '_'.
C12_RectifyIdempotentAndLegal ==
    tagged.called =>
        /\ tagged.resubmitted => tagged.valid_docker_tag = tagged.docker_tag
        /\ \A i \in 1..Len(tagged.valid_docker_tag) :
               tagged.valid_docker_tag[i] \in WordChars \cup {".", "-"}
        /\ \A i \in 1..(Len(tagged.valid_docker_tag) - 1) :
               ~ /\ tagged.valid_docker_tag[i] \in Separators
                 /\ tagged.valid_docker_tag[i + 1] \in Separators

\* A name with an illegal character and a run of separators was rectified,
\* and the result was rectified again.
C12_Witness ==
    /\ tagged.resubmitted
    /\ \E i \in 1..Len(tagged.origin) : tagged.origin[i] \in {":", "/"}
    /\ Len(tagged.valid_docker_tag) < Len(tagged.origin)
    /\ tagged.valid_docker_tag = tagged.docker_tag

(***************************************************************************)
(* Further claims about the staged project, checked under Spec             *)
(***************************************************************************)

\* C13: create_ossfuzz_project on a directory that exists copies nothing,
\* leaves the active Dockerfile, the backup and the cached Dockerfiles as
\* they were, and returns the path a first call returns.
C13_StageAgainIsNoOp ==
    [][last'.op = "stage" =>
          /\ last'.outcome = "ok"
          /\ last'.returned = generated_project_path
          /\ staged => /\ files' = files
                       /\ last'.wrote = {}
                       /\ staged']_vars

\* A project with a backup and a cached Dockerfile was staged again.
C13_Witness ==
    /\ last.op = "stage"
    /\ last.wrote = {}
    /\ files[OriginalDockerfile] # Absent
    /\ files[CachedDockerfile(Address)] # Absent
    /\ files[Dockerfile] = files[CachedDockerfile(Address)]

(***************************************************************************)
(* Further claims about the retry wrapper, checked under SpecRetry         *)
(***************************************************************************)

\* C14: with runs of one wrapped function interleaved, a step of one run
\* leaves every other run as it was, a run's attempt counter advances only
\* when a call of that run has failed, and a run that fails with one kind
\* never makes more calls than the budget of that kind (one call at least).
C14_RetryStateLocal ==
    [][/\ \A r \in Runs :
              run'[r] # run[r] => \A q \in Runs \ {r} : run'[q] = run[q]
       /\ \A r \in Runs :
              (run[r].pc # "idle" /\ run'[r].attempt # run[r].attempt) =>
                  /\ run[r].pc = "call"
                  /\ run'[r].attempt = run[r].attempt + 1
                  /\ run'[r].calls = run[r].calls + 1
       /\ \A r \in Runs : \A k \in Kinds :
              run'[r].seen = {k} =>
                  run'[r].calls <= IF NumAttempts(exception_config, k) > 1
                                   THEN NumAttempts(exception_config, k)
                                   ELSE 1]_vars

\* Two runs are in flight at different attempt counts: one has failed twice
\* and is about to call again, the other has failed once.
C14_Witness ==
    /\ run["run1"].attempt = 3
    /\ run["run1"].calls = 2
    /\ run["run1"].pc = "call"
    /\ run["run2"].attempt = 2
    /\ run["run2"].calls = 1
    /\ run["run2"].pc = "sleep"

(***************************************************************************)
(* Further claims about the image cache, checked under SpecCache           *)
(***************************************************************************)

\* The n-th command of the call was cmd for sanitizer s and ended with one of
\* exits.
LoggedAt(n, cmd, s, exits) ==
    /\ n \in 1..Len(docker_log)
    /\ docker_log[n].cmd = cmd
    /\ docker_log[n].sanitizer = s
    /\ docker_log[n].exit \in exits

\* C15: in one call of _prepare_image_cache, a build for a sanitizer directly
\* follows a manifest inspect that failed, a pull, and a second manifest
\* inspect that failed, all for that sanitizer; a commit directly follows the
\* build that succeeded; a container rm directly follows the commit that
\* succeeded; and a sanitizer one of whose inspects succeeded has no build,
\* commit or rm.
C15_StepsOrdered ==
    \A n \in 1..Len(docker_log) :
        LET s == docker_log[n].sanitizer
            cmd == docker_log[n].cmd
        IN  /\ cmd = "build" =>
                /\ LoggedAt(n - 3, "inspect", s, {"nonzero"})
                /\ LoggedAt(n - 2, "pull", s, {"ok", "nonzero"})
                /\ LoggedAt(n - 1, "inspect", s, {"nonzero"})
            /\ cmd = "commit" => LoggedAt(n - 1, "build", s, {"ok"})
            /\ cmd = "rm" => LoggedAt(n - 1, "commit", s, {"ok"})
            /\ (cmd = "inspect" /\ docker_log[n].exit = "ok") =>
                   \A m \in 1..Len(docker_log) :
                       docker_log[m].sanitizer = s =>
                           docker_log[m].cmd \in {"inspect", "pull"}

\* The address image was built, committed and its container removed; the
\* coverage image was found after the pull and the call returned True.
C15_Witness ==
    /\ prep.pc = "done"
    /\ prep.result = "true"
    /\ Logged("rm", Address, "ok")
    /\ Logged("pull", Coverage, "ok")
    /\ Len(docker_log) = 9
    /\ LoggedAt(9, "inspect", Coverage, {"ok"})

\* C16: whatever calls of create_ossfuzz_project, rewrite and prepare_build
\* were made, Dockerfile_original, once it exists, holds the Dockerfile the
\* project was staged with, and every cached Dockerfile is the rewriting of
\* that text for its sanitizer.
C16_BackupImmutable ==
    /\ files[OriginalDockerfile] # Absent =>
           files[OriginalDockerfile] = project_dockerfile
    /\ \A s \in Sanitizers :
           files[CachedDockerfile(s)] # Absent =>
               files[CachedDockerfile(s)] =
                   RewrittenContent(project_dockerfile,
                                    _get_project_cache_image_name(CacheProject, s))

\* The coverage Dockerfile was rewritten while the active Dockerfile held the
\* cached address Dockerfile, not the text the project was staged with.
C16_Witness ==
    /\ last.op = "rewrite"
    /\ last.sanitizer = Coverage
    /\ last.had_original
    /\ last.wrote = {CachedDockerfile(Coverage)}
    /\ files[Dockerfile] = files[CachedDockerfile(Address)]
    /\ files[Dockerfile] # project_dockerfile

\* Line n is the first line of the text that starts with keyword.
FirstWith(text, n, keyword) ==
    /\ StartsWith(text[n], keyword)
    /\ \A m \in 1..(n - 1) : ~StartsWith(text[m], keyword)

FromCacheImage == <<"FROM", " ", "$CACHE_IMAGE">>

\* C17 as claimed: whatever image the first FROM line of the original names,
\* the cached Dockerfile has FROM $CACHE_IMAGE in its place.
C17_FromUsesCacheImage ==
    \A s \in Sanitizers :
        files[CachedDockerfile(s)] # Absent =>
            \A n \in 1..Len(files[OriginalDockerfile]) :
                FirstWith(files[OriginalDockerfile], n, "FROM") =>
                    files[CachedDockerfile(s)][n + 1] = FromCacheImage

\* C17, amended: the first FROM line of the original is written as
\* FROM $CACHE_IMAGE when it names gcr.io/oss-fuzz-base/base-builder, with
\* any suffix, and is written as it reads in the original when it names
\* another image; in both cases without the comment marker.
C17_FromBaseBuilderUsesCacheImage ==
    \A s \in Sanitizers :
        files[CachedDockerfile(s)] # Absent =>
            \A n \in 1..Len(files[OriginalDockerfile]) :
                FirstWith(files[OriginalDockerfile], n, "FROM") =>
                    files[CachedDockerfile(s)][n + 1] =
                        IF BasePatternAt(files[OriginalDockerfile][n], 1)
                        THEN FromCacheImage
                        ELSE files[OriginalDockerfile][n]

\* An original whose first FROM names another image and whose second names a
\* base-builder image: the first is kept as it reads.
C17_Witness ==
    /\ files[OriginalDockerfile] = <<FromOtherLine, FromBaseLine, CopyLine>>
    /\ files[CachedDockerfile(Coverage)] # Absent
    /\ files[CachedDockerfile(Coverage)][2] = FromOtherLine
    /\ files[CachedDockerfile(Coverage)][3] = <<"# ">> \o FromCacheImage

\* C18 as claimed: the first ARG line of the original is written to the
\* cached Dockerfile without the comment marker, after the injected ARG line.
C18_OriginalArgKept ==
    \A s \in Sanitizers :
        files[CachedDockerfile(s)] # Absent =>
            /\ StartsWith(files[CachedDockerfile(s)][1], "ARG")
            /\ \A n \in 1..Len(files[OriginalDockerfile]) :
                   FirstWith(files[OriginalDockerfile], n, "ARG") =>
                       files[CachedDockerfile(s)][n + 1] = files[OriginalDockerfile][n]

\* C18, amended: the lines are classified after the ARG line was put first,
\* so the injected line is the ARG line that is kept: it is the first line of
\* the cached Dockerfile, and every ARG line of the original is written
\* behind the comment marker.
C18_OnlyInjectedArgKept ==
    \A s \in Sanitizers :
        files[CachedDockerfile(s)] # Absent =>
            /\ files[CachedDockerfile(s)][1] =
                   ArgLine(_get_project_cache_image_name(CacheProject, s))
            /\ \A n \in 1..Len(files[OriginalDockerfile]) :
                   StartsWith(files[OriginalDockerfile][n], "ARG") =>
                       files[CachedDockerfile(s)][n + 1] =
                           <<"# ">> \o files[OriginalDockerfile][n]

\* An original that starts with an ARG line was rewritten.
C18_Witness ==
    /\ files[OriginalDockerfile] = <<ArgOriginalLine, FromBaseLine, CopyLine>>
    /\ files[CachedDockerfile(Address)] # Absent
    /\ files[CachedDockerfile(Address)][2] = <<"# ">> \o ArgOriginalLine
    /\ files[CachedDockerfile(Address)][3] = FromCacheImage

\* The lines of the text that start with COPY.
CopyLines(text) == {n \in 1..Len(text) : StartsWith(text[n], "COPY")}

\* C19: rewriting a Dockerfile with fewer than two COPY lines ends without
\* error and writes the cached Dockerfile; in it the COPY line, if there is
\* one, has no comment marker, and the only other lines without it are the
\* injected ARG line and the first FROM line.
C19_FewCopyLines ==
    Cardinality(CopyLines(project_dockerfile)) < 2 =>
        /\ (last.op = "rewrite" =>
               /\ last.outcome = "ok"
               /\ files[CachedDockerfile(last.sanitizer)] # Absent)
        /\ \A s \in Sanitizers :
               files[CachedDockerfile(s)] # Absent =>
                   LET cached == files[CachedDockerfile(s)]
                       original == files[OriginalDockerfile]
                   IN  \A n \in 1..Len(original) :
                           IF \/ n \in CopyLines(original)
                              \/ FirstWith(original, n, "FROM")
                           THEN cached[n + 1] = ReSubBase(original[n])
                           ELSE cached[n + 1] = <<"# ">> \o ReSubBase(original[n])

\* An original with one COPY line, before it a line that is not kept.
C19_Witness ==
    /\ last.op = "rewrite"
    /\ last.outcome = "ok"
    /\ files[OriginalDockerfile] = <<RunLine, CopyLine, RunLine>>
    /\ files[CachedDockerfile(Address)] =
           <<ArgLine(_get_project_cache_image_name(CacheProject, Address)),
             <<"# ">> \o RunLine, CopyLine, <<"# ">> \o RunLine, EmptyLine>>

\* C20 as claimed: while a run sleeps, delay_fn was called with the number of
\* the attempt that just failed, which is the number of calls made so far
\* (1 for the first failure).
C20_DelayGivenFailedAttempt ==
    \A r \in Runs :
        run[r].pc = "sleep" => run[r].delay_arg = <<run[r].failure, run[r].calls>>

\* C20, amended: a failure at an attempt count below the budget of its kind,
\* and no other, is followed by delay_fn(failure, number of the attempt to
\* come), 2 after the first failure, then by the sleep, and the only step
\* after the sleep is the next call; a run that returned or propagated a
\* failure has taken one delay less than it made calls: none after its last
\* call.
C20_DelayGivenNextAttempt ==
    [][\A r \in Runs :
          /\ (run[r].pc = "call" /\ run'[r].pc \in {"sleep", "raised"}) =>
                 (run'[r].pc = "sleep" <=>
                      run[r].attempt < NumAttempts(exception_config, run'[r].failure))
          /\ run'[r].pc = "sleep" =>
                 /\ run'[r].delay_arg = <<run'[r].failure, run'[r].calls + 1>>
                 /\ run'[r].delays = run'[r].calls
          /\ run'[r].pc \in {"returned", "raised"} =>
                 run'[r].delays = run'[r].calls - 1
          /\ (run[r].pc = "sleep" /\ run'[r] # run[r]) =>
                 run'[r] = [run[r] EXCEPT !.pc = "call"]]_vars

\* A run sleeps after its second failure, delay_fn having been given 3, while
\* the other run propagated its first failure without any delay.
C20_Witness ==
    /\ run["run1"].pc = "sleep"
    /\ run["run1"].calls = 2
    /\ run["run1"].delay_arg = <<"KindB", 3>>
    /\ run["run2"].pc = "raised"
    /\ run["run2"].calls = 1
    /\ run["run2"].delays = 0

(***************************************************************************)
(* Claims about the staging pipeline, checked under SpecPipe               *)
(***************************************************************************)

\* The n-th function called by prepare_project_image.
StepAt(n, step) == n \in 1..Len(pipe.steps) /\ pipe.steps[n] = step

\* C21 as claimed: whatever the lookups answer, a call of
\* prepare_project_image does not end before it called _build_image, its
\* prepare_build directly follows its rewrite, and the Dockerfile at the call
\* of _build_image is the one of the project or the cached Dockerfile of
\* address.
C21_PipelineReachesBuild ==
    /\ pipe.pc \in {"raised", "done"} => \E n \in 1..Len(pipe.steps) : StepAt(n, "build")
    /\ \A n \in 1..Len(pipe.steps) : StepAt(n, "select") => StepAt(n - 1, "rewrite")
    /\ (\E n \in 1..Len(pipe.steps) : StepAt(n, "build")) =>
           pipe.built_with \in
               {project_dockerfile,
                RewrittenContent(project_dockerfile,
                                 _get_project_cache_image_name(CacheProject, Address))}

(***************************************************************************)
(* A last claim about the image cache, checked under SpecCache             *)
(***************************************************************************)

\* C22: for a project without fuzzer_build_script/<project>,
\* _prepare_image_cache returns False without raising, and has run no
\* docker manifest inspect, pull, build, commit or container rm: no command
\* is logged, no image and no container was made.
C22_NoScriptIsSkip ==
    (~has_script /\ prep.pc # "idle") =>
        /\ prep = [IdlePrep EXCEPT !.pc = "done", !.result = "false"]
        /\ docker_log = <<>>
        /\ images = {}
        /\ containers = {}

\* The call returned for a project without script whose images the registry
\* does not hold, so that with a script they would have been pulled or built.
C22_Witness ==
    /\ ~has_script
    /\ registry = {}
    /\ prep.pc = "done"
    /\ prep.result = "false"

(***************************************************************************)
(* A last claim about the retry wrapper, checked under SpecRetry           *)
(***************************************************************************)

\* The largest budget among the kinds the run has failed with, 1 at least.
LargestBudgetSeen(r) ==
    LET budgets == {NumAttempts(exception_config, k) : k \in run[r].seen} \cup {1}
    IN  CHOOSE b \in budgets : \A c \in budgets : c <= b

\* C23: one counter serves all kinds of a run: a call that fails with kind K
\* is propagated exactly when the calls the run has made, of whatever kind,
\* have reached the budget of K, and is followed by a delay otherwise; so a
\* run never makes more calls than the largest budget among the kinds it has
\* failed with, and one call at least.
C23_OneCounterForAllKinds ==
    [][\A r \in Runs :
          /\ (run[r].pc = "call" /\ run'[r].pc \in {"sleep", "raised"}) =>
                 /\ run'[r].calls = run[r].calls + 1
                 /\ run'[r].pc = "raised" <=>
                        run'[r].calls >= NumAttempts(exception_config, run'[r].failure)
                 /\ run'[r].pc = "raised" => run'[r].raised = run'[r].failure
          /\ run'[r].calls <=
                 LET budgets == {NumAttempts(exception_config, k) : k \in run'[r].seen}
                                \cup {1}
                 IN  CHOOSE b \in budgets : \A c \in budgets : c <= b]_vars

\* KindB, budget 2, is propagated the first time it occurs, at the third
\* call of a run that failed twice with KindA, budget 3.
C23_Witness ==
    \E r \in Runs :
        /\ DOMAIN exception_config = {"KindA", "KindB"}
        /\ exception_config["KindA"] = 3
        /\ exception_config["KindB"] = 2
        /\ run[r].pc = "raised"
        /\ run[r].raised = "KindB"
        /\ run[r].seen = {"KindA", "KindB"}
        /\ run[r].calls = 3
        /\ run[r].delays = 2
        /\ run[r].calls = LargestBudgetSeen(r)

(***************************************************************************)
(* A last claim about the staging pipeline, checked under SpecPipe         *)
(***************************************************************************)

\* C24: with ENABLE_CACHING off, prepare_project_image asks for no lookup,
\* rewrite or prepare_build, and neither it nor a later prepare_build call
\* writes a file: the staged project holds its Dockerfile as it was copied,
\* no Dockerfile_original and no cached Dockerfile, whatever the registry
\* holds.
C24_DisabledChangesNoFile ==
    ~enable_caching =>
        /\ \A n \in 1..Len(pipe.steps) : pipe.steps[n] \in {"stage", "build"}
        /\ staged => files = [NoFiles EXCEPT ![Dockerfile] = project_dockerfile]
        /\ last.op = "prepare_build" => /\ last.outcome = "ok"
                                        /\ last.wrote = {}
                                        /\ last.cached = "none"

\* With caching off and both images in the registry, the pipeline has built
\* from the original Dockerfile and prepare_build was called afterwards.
C24_Witness ==
    /\ ~enable_caching
    /\ registry = {_get_project_cache_image_name(CacheProject, s) : s \in Sanitizers}
    /\ pipe.pc = "done"
    /\ pipe.built_with = project_dockerfile
    /\ last.op = "prepare_build"
    /\ last.sanitizer = Coverage

====
